---- MODULE Spec2Model ----
(***************************************************************************)
(* Model of programs/solana-twitter/src/lib.rs: the send_tweet instruction *)
(* of the solana_twitter program, its account constraints                  *)
(* (SendTweetInstruction), the Tweet account and its sizing constants.     *)
(*                                                                         *)
(* A String is kept in the state run-length encoded, as a sequence of      *)
(* runs [cp, n] (n copies of the code point cp); Utf8 expands it to the    *)
(* bytes the String holds, and every length the program computes is        *)
(* computed from those bytes.                                              *)
(***************************************************************************)
EXTENDS Integers, Sequences, FiniteSets, TLC

VARIABLES
    slots,   \* the Tweet accounts that exist: slot -> [space, data]
    origin,  \* for each existing account, the call that created it and the
             \* clock value it ran at
    clock,   \* the host clock, Clock::get().unix_timestamp
    last,    \* the last send_tweet call: its accounts and arguments, the
             \* clock, the accounts before it, its result and the fields the
             \* handler had written when it returned
    ncalls   \* the number of send_tweet calls so far

vars == <<slots, origin, clock, last, ncalls>>

----------------------------------------------------------------------------
(* Bounds of the model *)

NumSlots == 2
MaxClock == 2
MaxCalls == 2

----------------------------------------------------------------------------
(* Sizing constants, lib.rs:78-95 *)

DISCRIMATOR_LENGTH == 8
PUBLIC_KEY_LENGTH == 32
TIMESTAMP_LENGTH == 8
STRING_LENGTH_PREFIX == 4
MAX_TOPIC_LENGTH_OneBytePerChar == 50 * 1
MAX_TOPIC_LENGTH == 200
MAX_CONTENT_LENGTH == 280 * 4
MAX_TOPIC_CHARS == 50
MAX_CONTENT_CHARS == 280

LEN ==
    DISCRIMATOR_LENGTH + PUBLIC_KEY_LENGTH + TIMESTAMP_LENGTH
    + STRING_LENGTH_PREFIX + MAX_TOPIC_LENGTH
    + STRING_LENGTH_PREFIX + MAX_CONTENT_LENGTH

----------------------------------------------------------------------------
(* Strings: UTF-8 *)

Utf8Width(cp) ==
    IF cp < 128 THEN 1 ELSE IF cp < 2048 THEN 2 ELSE IF cp < 65536 THEN 3 ELSE 4

\* Byte k (0-based) of the UTF-8 encoding of the code point cp.
Utf8Byte(cp, k) ==
    LET w == Utf8Width(cp)
        shift == w - 1 - k
        six == (cp \div (64 ^ shift)) % 64
    IN  IF w = 1 THEN cp
        ELSE IF k > 0 THEN 128 + six
        ELSE IF w = 2 THEN 192 + cp \div 64
        ELSE IF w = 3 THEN 224 + cp \div 4096
        ELSE 240 + cp \div 262144

RunBytes(run) ==
    LET w == Utf8Width(run.cp)
    IN  [i \in 1..(run.n * w) |-> Utf8Byte(run.cp, (i - 1) % w)]

RECURSIVE Utf8(_)
\* The bytes of the String s.
Utf8(s) ==
    IF s = <<>> THEN <<>>
    ELSE Utf8(SubSeq(s, 1, Len(s) - 1)) \o RunBytes(s[Len(s)])

\* The bytes that start a character: those that are not continuation bytes
\* (10xxxxxx).
StartBytes(b) == Cardinality({i \in 1..Len(b) : b[i] < 128 \/ b[i] >= 192})

----------------------------------------------------------------------------
(* Identities and inputs *)

\* system_program::ID, the all-zero key (which is also Pubkey::default()).
SYSTEM_PROGRAM_ID == "11111111111111111111111111111111"

Slots == 1..NumSlots
AuthorKeys == {"Alice", "Bob"}
ProgramKeys == {SYSTEM_PROGRAM_ID, "FakeSystemProgram"}

Run(cp, n) == [cp |-> cp, n |-> n]

\* Sample topics: 50 three-byte characters (150 bytes), 50 four-byte
\* characters (200 bytes), 51 one-byte characters, and a short one of a
\* one-byte and a two-byte character.
Topics ==
    { <<Run(8364, 50)>>,
      <<Run(128512, 50)>>,
      <<Run(65, 51)>>,
      <<Run(65, 1), Run(233, 1)>> }

\* Sample contents: 280 four-byte characters (1120 bytes) and 281 one-byte
\* characters.
Contents ==
    { <<Run(128512, 280)>>,
      <<Run(65, 281)>> }

\* The strings of the model, and for each its byte length and its number of
\* characters, both computed from its bytes.
Strings == Topics \cup Contents \cup {<<>>}

ByteLenOf == [s \in Strings |-> Len(Utf8(s))]

CharCountOf == [s \in Strings |-> StartBytes(Utf8(s))]

\* String::len(): the number of bytes.
bytes_len(s) == ByteLenOf[s]

chars_count_Bytes(s) == ByteLenOf[s]

\* str::chars().count()
chars_count(s) == CharCountOf[s]

\* Borsh size of a Tweet account: discriminator, author, timestamp, and for
\* each String a 4-byte length prefix followed by its bytes.
SerializedLen(t) ==
    DISCRIMATOR_LENGTH + PUBLIC_KEY_LENGTH + TIMESTAMP_LENGTH
    + STRING_LENGTH_PREFIX + bytes_len(t.topic)
    + STRING_LENGTH_PREFIX + bytes_len(t.content)

\* One send_tweet instruction: the three accounts of SendTweetInstruction
\* and the two arguments.
Calls ==
    [tweet : Slots, author : AuthorKeys, is_signer : BOOLEAN,
     system_program : ProgramKeys, topic : Topics, content : Contents]

Fields == {"author", "timestamp", "topic", "content"}

\* The data of a freshly created account: all zero bytes.
ZeroTweet ==
    [author |-> SYSTEM_PROGRAM_ID, timestamp |-> 0, topic |-> <<>>, content |-> <<>>]

Written(a, b) == {f \in Fields : a[f] # b[f]}

----------------------------------------------------------------------------
(* Account constraints of SendTweetInstruction, lib.rs:53-64 *)

InitViolated_AnySlot(sl, t) == DOMAIN sl # {}

InitViolated_Never(sl, t) == FALSE

\* #[account(init, ...)] tweet: the account must not exist yet.
InitViolated(sl, t) == t \in DOMAIN sl

\* author: Signer
SignerViolated(call) == ~call.is_signer

AddressViolated_Never(call) == FALSE

\* #[account(address = system_program::ID)] system_program
AddressViolated(call) == call.system_program # SYSTEM_PROGRAM_ID

\* The errors the account validation can end with; the handler runs only
\* when there is none.
ConstraintErrors(sl, call) ==
    (IF InitViolated(sl, call.tweet) THEN {"AccountAlreadyInUse"} ELSE {})
    \cup (IF SignerViolated(call) THEN {"ConstraintSigner"} ELSE {})
    \cup (IF AddressViolated(call) THEN {"ConstraintAddress"} ELSE {})

\* The variants of the program's ErrorCode, lib.rs:100-106.
ErrorCode == {"TopicTooLong", "ContentTooLong"}

----------------------------------------------------------------------------
(* The handler, lib.rs:12-44 *)

send_tweet_OffByOne(tweet, author_key, unix_timestamp, topic, content) ==
    IF chars_count(topic) >= MAX_TOPIC_CHARS
    THEN [res |-> "TopicTooLong", tweet |-> tweet]
    ELSE IF chars_count(content) >= MAX_CONTENT_CHARS
    THEN [res |-> "ContentTooLong", tweet |-> tweet]
    ELSE [res |-> "Ok",
          tweet |-> [author |-> author_key, timestamp |-> unix_timestamp,
                     topic |-> topic, content |-> content]]

send_tweet_WriteFirst(tweet, author_key, unix_timestamp, topic, content) ==
    LET t1 == [tweet EXCEPT !.author = author_key, !.timestamp = unix_timestamp]
    IN  IF chars_count(topic) > MAX_TOPIC_CHARS
        THEN [res |-> "TopicTooLong", tweet |-> t1]
        ELSE IF chars_count(content) > MAX_CONTENT_CHARS
        THEN [res |-> "ContentTooLong", tweet |-> t1]
        ELSE [res |-> "Ok",
              tweet |-> [t1 EXCEPT !.topic = topic, !.content = content]]

send_tweet_ContentUnchecked(tweet, author_key, unix_timestamp, topic, content) ==
    IF chars_count(topic) > MAX_TOPIC_CHARS
    THEN [res |-> "TopicTooLong", tweet |-> tweet]
    ELSE [res |-> "Ok",
          tweet |-> [author |-> author_key, timestamp |-> unix_timestamp,
                     topic |-> topic, content |-> content]]

send_tweet_AuthorUnset(tweet, author_key, unix_timestamp, topic, content) ==
    IF chars_count(topic) > MAX_TOPIC_CHARS
    THEN [res |-> "TopicTooLong", tweet |-> tweet]
    ELSE IF chars_count(content) > MAX_CONTENT_CHARS
    THEN [res |-> "ContentTooLong", tweet |-> tweet]
    ELSE [res |-> "Ok",
          tweet |-> [author |-> tweet.author, timestamp |-> unix_timestamp,
                     topic |-> topic, content |-> content]]

send_tweet_TimestampUnset(tweet, author_key, unix_timestamp, topic, content) ==
    IF chars_count(topic) > MAX_TOPIC_CHARS
    THEN [res |-> "TopicTooLong", tweet |-> tweet]
    ELSE IF chars_count(content) > MAX_CONTENT_CHARS
    THEN [res |-> "ContentTooLong", tweet |-> tweet]
    ELSE [res |-> "Ok",
          tweet |-> [author |-> author_key, timestamp |-> tweet.timestamp,
                     topic |-> topic, content |-> content]]

send_tweet(tweet, author_key, unix_timestamp, topic, content) ==
    IF chars_count(topic) > MAX_TOPIC_CHARS
    THEN [res |-> "TopicTooLong", tweet |-> tweet]
    ELSE IF chars_count(content) > MAX_CONTENT_CHARS
    THEN [res |-> "ContentTooLong", tweet |-> tweet]
    ELSE [res |-> "Ok",
          tweet |-> [author |-> author_key, timestamp |-> unix_timestamp,
                     topic |-> topic, content |-> content]]

\* The instruction after its account validation: the tweet account is
\* created with space = Tweet::LEN and zeroed, the handler runs on it, and on
\* Ok the account is serialized back into its space.
Execute(clk, call) ==
    LET out == send_tweet(ZeroTweet, call.author, clk, call.topic, call.content)
        res == IF out.res = "Ok" /\ SerializedLen(out.tweet) > LEN
               THEN "AccountDidNotSerialize" ELSE out.res
    IN  [res |-> res, tweet |-> out.tweet, space |-> LEN]

\* The transaction is atomic: the account exists afterwards only on Ok.
Commit(sl, t, r) ==
    IF r.res = "Ok" THEN (t :> [space |-> r.space, data |-> r.tweet]) @@ sl ELSE sl

----------------------------------------------------------------------------
(* The state machine *)

NoCall ==
    [call |-> CHOOSE c \in Calls : TRUE, clock |-> 0, res |-> "None",
     written |-> {}, before |-> <<>>]

Init ==
    /\ slots = <<>>
    /\ origin = <<>>
    /\ clock = 1
    /\ last = NoCall
    /\ ncalls = 0

\* The host clock advances.
Tick ==
    /\ clock < MaxClock
    /\ clock' = clock + 1
    /\ UNCHANGED <<slots, origin, last, ncalls>>

\* One send_tweet transaction.
SendTweet(call) ==
    /\ ncalls < MaxCalls
    /\ ncalls' = ncalls + 1
    /\ UNCHANGED clock
    /\ IF ConstraintErrors(slots, call) # {}
       THEN /\ \E e \in ConstraintErrors(slots, call) :
                 last' = [call |-> call, clock |-> clock, res |-> e,
                          written |-> {}, before |-> slots]
            /\ UNCHANGED <<slots, origin>>
       ELSE LET r == Execute(clock, call)
            IN  /\ slots' = Commit(slots, call.tweet, r)
                /\ origin' = IF r.res = "Ok"
                             THEN (call.tweet :> [call |-> call, clock |-> clock]) @@ origin
                             ELSE origin
                /\ last' = [call |-> call, clock |-> clock, res |-> r.res,
                            written |-> Written(ZeroTweet, r.tweet),
                            before |-> slots]

Next ==
    \/ Tick
    \/ \E call \in Calls : SendTweet(call)

Spec == Init /\ [][Next]_vars

----------------------------------------------------------------------------
(* Measures used to state the properties: the number of characters and of
   encoded bytes of a string, read off its runs. *)

RECURSIVE NumChars(_)
NumChars(s) == IF s = <<>> THEN 0 ELSE s[1].n + NumChars(Tail(s))

RECURSIVE NumBytes(_)
NumBytes(s) ==
    IF s = <<>> THEN 0 ELSE s[1].n * Utf8Width(s[1].cp) + NumBytes(Tail(s))

Called == ncalls > 0

\* The last call passed the account validation: a signer, the genuine
\* system program, and a tweet account that did not exist.
AccountsValid ==
    /\ last.call.is_signer
    /\ last.call.system_program = SYSTEM_PROGRAM_ID
    /\ last.call.tweet \notin DOMAIN last.before

WithinCaps ==
    /\ NumChars(last.call.topic) <= 50
    /\ NumChars(last.call.content) <= 280

ValidationErrors == {"AccountAlreadyInUse", "ConstraintSigner", "ConstraintAddress"}

\* No account was created or changed by the last call.
NothingCreated == slots = last.before

----------------------------------------------------------------------------
\* C1: a send_tweet call with a valid signer, the genuine system program and
\* a fresh slot, whose topic has at most 50 characters and whose content has
\* at most 280 (50 and 280 included), succeeds, and the stored topic and
\* content equal the inputs.
C1_RoundTrip ==
    (Called /\ AccountsValid /\ WithinCaps) =>
        /\ last.res = "Ok"
        /\ last.call.tweet \in DOMAIN slots
        /\ slots[last.call.tweet].data.topic = last.call.topic
        /\ slots[last.call.tweet].data.content = last.call.content

C1_Witness ==
    /\ Called /\ AccountsValid
    /\ NumChars(last.call.topic) = 50
    /\ NumChars(last.call.content) = 280
    /\ last.res = "Ok"
    /\ slots[last.call.tweet].data.topic = last.call.topic

\* C2: a send_tweet call whose topic has more than 50 characters (51
\* included) fails with TopicTooLong; no field of the new record has been
\* written when the error is returned, and no slot is left initialized.
\* (The handler is entered only by calls that passed the account validation;
\* the last two conjuncts are checked of every call.)
C2_TopicTooLong ==
    (Called /\ NumChars(last.call.topic) > 50) =>
        /\ AccountsValid => last.res = "TopicTooLong"
        /\ last.res # "Ok"
        /\ last.written = {}
        /\ NothingCreated

C2_Witness ==
    /\ Called /\ AccountsValid
    /\ NumChars(last.call.topic) = 51
    /\ last.res = "TopicTooLong"
    /\ last.call.tweet \notin DOMAIN slots

\* C3 as stated: every send_tweet call whose content has more than 280
\* characters, whatever the topic, fails with ContentTooLong and creates no
\* record.
C3_Original ==
    (Called /\ AccountsValid /\ NumChars(last.call.content) > 280) =>
        /\ last.res = "ContentTooLong"
        /\ NothingCreated

\* C3, amended: a send_tweet call whose content has more than 280 characters
\* fails and creates no record; the error is ContentTooLong when the topic
\* has at most 50 characters, and TopicTooLong when the topic has more than
\* 50 (the topic is checked first).
C3_ContentTooLong ==
    (Called /\ NumChars(last.call.content) > 280) =>
        /\ (AccountsValid /\ NumChars(last.call.topic) <= 50)
              => last.res = "ContentTooLong"
        /\ (AccountsValid /\ NumChars(last.call.topic) > 50)
              => last.res = "TopicTooLong"
        /\ last.res # "Ok"
        /\ NothingCreated

C3_Witness ==
    /\ Called /\ AccountsValid
    /\ NumChars(last.call.content) = 281
    /\ NumChars(last.call.topic) <= 50
    /\ last.res = "ContentTooLong"
    /\ last.call.tweet \notin DOMAIN slots

\* C4: the caps are on characters, not bytes: no call is rejected with
\* TopicTooLong unless its topic has more than 50 characters, nor with
\* ContentTooLong unless its content has more than 280, whatever the byte
\* lengths; and a call that passes the account validation is accepted
\* exactly when both character counts are within the caps.
C4_CharsNotBytes ==
    Called =>
        /\ last.res = "TopicTooLong" => NumChars(last.call.topic) > 50
        /\ last.res = "ContentTooLong" => NumChars(last.call.content) > 280
        /\ AccountsValid => (last.res = "Ok" <=> WithinCaps)

C4_Witness ==
    /\ Called /\ AccountsValid
    /\ NumChars(last.call.topic) = 50
    /\ NumBytes(last.call.topic) > 50
    /\ NumBytes(last.call.content) > 280
    /\ last.res = "Ok"

C6_AuthorIsSigner ==
    \A s \in DOMAIN slots :
        /\ origin[s].call.is_signer
        /\ slots[s].data.author = origin[s].call.author

C6_Witness ==
    \E s1, s2 \in DOMAIN slots :
        /\ slots[s1].data.author = "Alice" /\ origin[s1].call.author = "Alice"
        /\ slots[s2].data.author = "Bob" /\ origin[s2].call.author = "Bob"
        /\ slots[s1].data.topic = slots[s2].data.topic

\* C7: the timestamp of every stored record is the value the host clock had
\* when the send_tweet call that created it ran.
C7_TimestampIsClock ==
    \A s \in DOMAIN slots : slots[s].data.timestamp = origin[s].clock

C7_Witness ==
    \E s1, s2 \in DOMAIN slots :
        /\ slots[s1].data.timestamp = 1 /\ origin[s1].clock = 1
        /\ slots[s2].data.timestamp = 2 /\ origin[s2].clock = 2

\* C8: a committed record is never modified or removed, and a call that
\* targets an initialized slot fails without writing a field.
C8_Immutable ==
    [][ /\ \A s \in DOMAIN slots : s \in DOMAIN slots' /\ slots'[s] = slots[s]
        /\ (ncalls' # ncalls /\ last'.call.tweet \in DOMAIN slots)
              => (last'.res # "Ok" /\ last'.written = {}) ]_vars

C8_Witness ==
    /\ Called
    /\ last.call.tweet \in DOMAIN last.before
    /\ last.call.is_signer
    /\ last.call.system_program = SYSTEM_PROGRAM_ID
    /\ WithinCaps
    /\ last.res = "AccountAlreadyInUse"
    /\ slots[last.call.tweet] = last.before[last.call.tweet]
    /\ slots[last.call.tweet].data.topic # last.call.topic

\* The record a transaction creates when it runs alone, on an empty ledger.
AloneRecord(o) ==
    Commit(<<>>, o.call.tweet, Execute(o.clock, o.call))[o.call.tweet]

\* C9: a valid transaction on a fresh slot succeeds whatever the other slots
\* hold, creates the record it would create alone and leaves the other
\* slots as they were; a failed transaction changes no slot.
C9_Independent ==
    /\ (Called /\ AccountsValid /\ WithinCaps) =>
          /\ last.res = "Ok"
          /\ DOMAIN slots = DOMAIN last.before \cup {last.call.tweet}
          /\ \A s \in DOMAIN last.before : slots[s] = last.before[s]
          /\ slots[last.call.tweet].data =
                [author |-> last.call.author, timestamp |-> last.clock,
                 topic |-> last.call.topic, content |-> last.call.content]
    /\ (Called /\ last.res # "Ok") => NothingCreated
    /\ \A s \in DOMAIN slots : slots[s] = AloneRecord(origin[s])

C9_Witness ==
    /\ Called /\ AccountsValid /\ WithinCaps
    /\ last.res = "Ok"
    /\ DOMAIN last.before # {}
    /\ Cardinality(DOMAIN slots) = 2
    /\ \A s \in DOMAIN last.before : slots[s] = last.before[s]

\* The size of a serialized record, from its fields.
RecordBytes(t) == 8 + 32 + 8 + 4 + NumBytes(t.topic) + 4 + NumBytes(t.content)

\* C10: every record slot has 1376 = 8 + 32 + 8 + 4 + 200 + 4 + 1120 bytes,
\* whatever the topic and content, and every accepted record serializes
\* within them.
C10_FixedSize ==
    /\ LEN = 1376
    /\ LEN = 8 + 32 + 8 + 4 + 200 + 4 + 1120
    /\ \A s \in DOMAIN slots :
          /\ slots[s].space = 1376
          /\ RecordBytes(slots[s].data) <= slots[s].space
    /\ (Called /\ AccountsValid /\ WithinCaps) =>
          /\ last.res = "Ok"
          /\ RecordBytes([topic |-> last.call.topic,
                          content |-> last.call.content]) <= 1376

C10_Witness ==
    \E s1, s2 \in DOMAIN slots :
        /\ RecordBytes(slots[s1].data) = 1376
        /\ RecordBytes(slots[s2].data) < 1376
        /\ slots[s1].space = slots[s2].space

====
